---- MODULE Spec2Model ----
(***************************************************************************)
(* provenance-lib: the versioned archive parsers (archive_parser.py and    *)
(* the older copies in parse.py) and the provenance DAG (parse.py ProvDAG) *)
(* as a state machine.  A zip archive is a listing of paths plus the       *)
(* parsed contents of its VERSION, metadata.yaml and action.yaml files.    *)
(***************************************************************************)
EXTENDS Integers, Sequences, FiniteSets, TLC

VARIABLES
    zf,          \* the archive handed to the parser / the ProvDAG constructor
    cfg,         \* Config(perform_checksum_validation, parse_study_metadata)
    results,     \* what archive_parser.ParserVx.parse_prov returned
    dag,         \* the ProvDAG built by parse.ProvDAG.__init__ (self)
    parser,      \* the parser ArtifactParser.get_parser returned ("" if none)
    others,      \* further ProvDAGs the caller has built, for union
    view,        \* the view the last nested_view read returned
    ret,         \* the value the last terminal_uuids read returned
    raised,      \* the exception the last call raised ("" when it returned)
    warned,      \* number of warnings.warn calls so far
    validated,   \* number of checksum_validator.validate_checksums calls
    calls,       \* number of relabel_nodes and union calls made on dag
    alias,       \* positions in others whose graph object is dag's own
    provnode,    \* the ProvNode whose _parents the caller reads
    got_parents, \* what the last _parents read returned
    pc           \* which call the caller made last

vars == <<zf, cfg, results, dag, parser, others, view, ret, raised, warned,
          validated, calls, alias, provnode, got_parents, pc>>

----------------------------------------------------------------------------
(* Path strings.  A path is the sequence of its '/'-separated parts; the   *)
(* substrings Python's `x in fp` can see inside one part are tabulated.    *)

\* <proper substring relation on the part names the archives use>
ProperInfix ==
    { <<"sample_metadata.yaml", "metadata.yaml">>,
      <<"provenance_notes", "provenance">>,
      <<"action.yaml", "action">> }

ProperSuffix ==
    { <<"sample_metadata.yaml", "metadata.yaml">> }

ProperPrefix ==
    { <<"provenance_notes", "provenance">>,
      <<"action.yaml", "action">> }

StrContains(part, s) == part = s \/ <<part, s>> \in ProperInfix
StrEndsWith(part, s) == part = s \/ <<part, s>> \in ProperSuffix
StrStartsWith(part, s) == part = s \/ <<part, s>> \in ProperPrefix

\* Python `name in fp` for a '/'-joined path fp and a relative name
\* (itself one or more parts, e.g. action/action.yaml).
InPathString(name, fp) ==
    IF Len(name) = 1
    THEN \E i \in 1..Len(fp) : StrContains(fp[i], name[1])
    ELSE \E i \in 1..(Len(fp) - Len(name) + 1) :
            /\ StrEndsWith(fp[i], name[1])
            /\ StrStartsWith(fp[i + Len(name) - 1], name[Len(name)])
            /\ \A k \in 2..(Len(name) - 1) : fp[i + k - 1] = name[k]

PathName(fp) == fp[Len(fp)]

SeqToSet(s) == { s[i] : i \in 1..Len(s) }

InSeq(x, s) == \E i \in 1..Len(s) : s[i] = x

----------------------------------------------------------------------------
(* Archives the callers can hand in.  A lineage gives, for every result    *)
(* that has a provenance folder in the archive, the action that made it.   *)

RootId == "a"

Ids == {"a", "b", "c", "d"}

Versions == {"0", "1", "2", "3", "4", "5"}

VNum(v) == CASE v = "0" -> 0 [] v = "1" -> 1 [] v = "2" -> 2
             [] v = "3" -> 3 [] v = "4" -> 4 [] v = "5" -> 5

\* one entry of action.yaml's `inputs` list: a single-item {name: value} dict
In1(n, id) == [name |-> n, kind |-> "uuid", ids |-> <<id>>]
InList(n, s) == [name |-> n, kind |-> "list", ids |-> s]

\* one entry of action.yaml's `parameters` list
Param(n) == [name |-> n, kind |-> "scalar",
             input_artifact_uuids |-> <<>>, relative_fp |-> ""]
MdParam(n, fp, s) == [name |-> n, kind |-> "metadata",
                      input_artifact_uuids |-> s, relative_fp |-> fp]

Act(t, ins, ps) == [type |-> t, inputs |-> ins, parameters |-> ps]

Import == Act("import", <<>>, <<>>)

\* a single imported artifact
LineageImport == [i \in {"a"} |-> Import]

\* a <- b
LineageChain ==
    [i \in {"a", "b"} |->
        IF i = "a" THEN Act("method", <<In1("table", "b")>>, <<Param("depth")>>)
        ELSE Import]

\* a <- {b, c}, b <- d, c <- d
LineageDiamond ==
    [i \in {"a", "b", "c", "d"} |->
        CASE i = "a" -> Act("method", <<In1("table", "b"), In1("tree", "c")>>, <<>>)
          [] i = "b" -> Act("method", <<In1("seqs", "d")>>, <<>>)
          [] i = "c" -> Act("method", <<In1("seqs", "d")>>, <<>>)
          [] i = "d" -> Import]

\* a is the alias node of a pipeline whose recorded input is d; the inner
\* steps d -> b -> c are bundled in the archive too
LineagePipeline ==
    [i \in {"a", "b", "c", "d"} |->
        CASE i = "a" -> Act("pipeline", <<In1("table", "d")>>, <<>>)
          [] i = "b" -> Act("method", <<In1("table", "d")>>, <<>>)
          [] i = "c" -> Act("method", <<In1("table", "b")>>, <<>>)
          [] i = "d" -> Import]

\* a <- b where b is a !no-provenance input with no folder in the archive
LineageNoProvParent ==
    [i \in {"a"} |-> Act("method", <<In1("table", "b")>>, <<>>)]

\* a took artifact b as metadata, and a plain metadata file as well
LineageMetadata ==
    [i \in {"a", "b"} |->
        IF i = "a"
        THEN Act("visualizer", <<>>,
                 <<MdParam("metadata", "metadata.tsv", <<"b">>),
                   MdParam("samples", "samples.tsv", <<>>),
                   Param("depth")>>)
        ELSE Import]

\* a took one single input and a list of two (variadic inputs, v3+)
LineageCollection ==
    [i \in {"a", "b", "c", "d"} |->
        IF i = "a"
        THEN Act("method", <<In1("tree", "d"), InList("tables", <<"b", "c">>)>>,
                 <<>>)
        ELSE Import]

Lineages == { LineageImport, LineageChain, LineageDiamond, LineagePipeline,
              LineageNoProvParent, LineageMetadata, LineageCollection }

\* the files of one result's provenance folder, for its own format version
NodeFiles(prefix, v, act) ==
    << prefix \o <<"VERSION">>, prefix \o <<"metadata.yaml">> >>
    \o (IF VNum(v) >= 1 THEN << prefix \o <<"action", "action.yaml">> >> ELSE <<>>)
    \o (IF VNum(v) >= 4 THEN << prefix \o <<"citations.bib">> >> ELSE <<>>)
    \o (IF VNum(v) >= 1
        THEN [k \in 1..Len(SelectSeq(act.parameters, LAMBDA p : p.kind = "metadata")) |->
                prefix \o <<"action",
                  SelectSeq(act.parameters, LAMBDA p : p.kind = "metadata")[k].relative_fp>>]
        ELSE <<>>)

NodePrefix(root, id) ==
    IF id = root THEN <<root, "provenance">>
    ELSE <<root, "provenance", "artifacts", id>>

RECURSIVE AncestorFiles(_, _, _, _)
AncestorFiles(L, ver, root, todo) ==
    IF todo = <<>> THEN <<>>
    ELSE LET id == Head(todo)
         IN (IF id \in DOMAIN L /\ id # root
             THEN NodeFiles(NodePrefix(root, id), ver[id], L[id])
             ELSE <<>>)
            \o AncestorFiles(L, ver, root, Tail(todo))

IdOrder == <<"a", "b", "c", "d">>

\* the zip listing of a well-formed archive of root version rv
FullListing(L, ver, root) ==
    << <<root, "VERSION">>, <<root, "metadata.yaml">> >>
    \o (IF ver[root] = "5" THEN << <<root, "checksums.md5">> >> ELSE <<>>)
    \o << <<root, "data", "data.txt">> >>
    \o (IF ver[root] # "0"
        THEN NodeFiles(NodePrefix(root, root), ver[root], L[root])
             \o AncestorFiles(L, ver, root, IdOrder)
        ELSE <<>>)

\* the result a provenance file belongs to (how the archive was written)
OwnerOf(fp, root) ==
    IF Len(fp) >= 4 /\ fp[3] = "artifacts" THEN fp[4] ELSE root

\* The archive: its listing without the omitted file, and what the YAML and
\* VERSION loaders read from each file.
MakeArchiveAt(root, L, ver, omit, md5ok) ==
    LET names == SelectSeq(FullListing(L, ver, root), LAMBDA p : p # omit)
        S == SeqToSet(names)
    IN [ namelist |-> names,
         VERSION  |-> [p \in {q \in S : PathName(q) = "VERSION"} |->
                          ver[OwnerOf(p, root)]],
         metadata |-> [p \in {q \in S : PathName(q) = "metadata.yaml"} |->
                          OwnerOf(p, root)],
         action   |-> [p \in {q \in S : PathName(q) = "action.yaml"} |->
                          L[OwnerOf(p, root)]],
         md5_ok   |-> md5ok ]

MakeArchive(L, ver, omit, md5ok) == MakeArchiveAt(RootId, L, ver, omit, md5ok)

\* Version assignments: every folder has the root's version, except at most
\* one ancestor written by an older release.
VersionMaps(L, rv) ==
    { [i \in DOMAIN L |-> rv] }
    \cup { [i \in DOMAIN L |-> IF i = leg THEN lv ELSE rv] :
             leg \in (DOMAIN L) \ {RootId},
             lv \in {v \in Versions : VNum(v) < VNum(rv)} }

\* files whose loss the parsers are written to notice
Omittable(L, ver) ==
    { p \in SeqToSet(FullListing(L, ver, RootId)) :
        PathName(p) \in {"VERSION", "metadata.yaml", "action.yaml",
                         "citations.bib", "checksums.md5"} }

Archives ==
    { MakeArchive(LineageImport, [i \in {"a"} |-> "0"], omit, TRUE) :
        omit \in {<<>>} \cup Omittable(LineageImport, [i \in {"a"} |-> "0"]) }
    \cup UNION { UNION { { MakeArchive(L, ver, omit, ok) :
                             omit \in {<<>>} \cup Omittable(L, ver),
                             ok \in IF rv = "5" THEN BOOLEAN ELSE {TRUE} } :
                         ver \in VersionMaps(L, rv) } :
                 L \in Lineages, rv \in Versions \ {"0"} }

Configs == [perform_checksum_validation : BOOLEAN, parse_study_metadata : BOOLEAN]

----------------------------------------------------------------------------
(* Collaborators: util, version_parser and checksum_validator.              *)

Min(x, y) == IF x <= y THEN x ELSE y

\* util.get_root_uuid: the first path segment found in the zip listing
get_root_uuid(z) == z.namelist[1][1]

\* util.get_nonroot_uuid: the id that follows the 'artifacts' segment
get_nonroot_uuid(fp) ==
    fp[(CHOOSE i \in 1..Len(fp) :
            /\ fp[i] = "artifacts"
            /\ \A j \in 1..(i - 1) : fp[j] # "artifacts") + 1]

\* version_parser.parse_version: (archive version, framework version) of a
\* VERSION file, or ValueError when it is missing or out of spec
parse_version(z, fp) ==
    IF ~InSeq(fp, z.namelist)
    THEN [raised |-> "ValueError", archive_version |-> ""]
    ELSE IF z.VERSION[fp] = "out of spec"
    THEN [raised |-> "ValueError", archive_version |-> ""]
    ELSE [raised |-> "", archive_version |-> z.VERSION[fp]]

NoDiff == [none |-> TRUE]
EmptyDiff == [none |-> FALSE, added |-> {}, removed |-> {}, changed |-> {}]
\* the diff of an archive whose data file no longer matches its checksum
DiffOf(root) == [none |-> FALSE, added |-> {}, removed |-> {},
                 changed |-> {<<root, "data", "data.txt">>}]
SomeDiff == DiffOf(RootId)

\* checksum_validator.validate_checksums: the code and the diff
validate_checksums(z) ==
    IF ~InSeq(<<get_root_uuid(z), "checksums.md5">>, z.namelist)
    THEN <<"INVALID", NoDiff>>
    ELSE IF z.md5_ok THEN <<"VALID", EmptyDiff>>
    ELSE <<"INVALID", DiffOf(get_root_uuid(z))>>

----------------------------------------------------------------------------
(* archive_parser.py: the per-version file tables and the registry.         *)

ParserV0_expected_files_in_all_nodes == << <<"metadata.yaml">>, <<"VERSION">> >>

ParserV1_expected_files_in_all_nodes ==
    ParserV0_expected_files_in_all_nodes \o << <<"action", "action.yaml">> >>

ParserV4_expected_files_in_all_nodes ==
    ParserV1_expected_files_in_all_nodes \o << <<"citations.bib">> >>

ParserV5_expected_files_root_only == << <<"checksums.md5">> >>

FORMAT_REGISTRY == {"0", "1", "2", "3", "4", "5"}

\* a table in which ParserV4 builds on ParserV0's tuple, not on ParserV3's
expected_files_v4_from_v0(v) ==
    CASE v = "0" -> ParserV0_expected_files_in_all_nodes
      [] v \in {"1", "2", "3"} -> ParserV1_expected_files_in_all_nodes
      [] v \in {"4", "5"} ->
            ParserV0_expected_files_in_all_nodes \o << <<"citations.bib">> >>

expected_files_in_all_nodes(v) ==
    CASE v = "0" -> ParserV0_expected_files_in_all_nodes
      [] v \in {"1", "2", "3"} -> ParserV1_expected_files_in_all_nodes
      [] v \in {"4", "5"} -> ParserV4_expected_files_in_all_nodes

expected_files_root_only(v) ==
    IF v = "5" THEN ParserV5_expected_files_root_only ELSE <<>>

\* prefix / name for every name of a tuple of relative names
Qualify(prefix, names) == [k \in 1..Len(names) |-> prefix \o names[k]]

----------------------------------------------------------------------------
(* ProvNode: one result, built from the files it is handed.                 *)

NoAction == [none |-> TRUE]

BlankNode ==
    [ raised |-> "",
      _archive_version |-> "unset",
      _uuid |-> "unset",
      has_action |-> FALSE,
      action |-> NoAction,
      has_citations |-> FALSE,
      has_metadata |-> FALSE,
      _metadata |-> {},
      _artifacts_passed_as_md |-> <<>> ]

\* provenance assumed for every format version
has_provenance_always(node) == TRUE

\* provenance assumed from format version 2 on
has_provenance_from_v2(node) == node._archive_version \notin {"0", "1"}

has_provenance(node) == node._archive_version # "0"

RECURSIVE FlattenIds(_)
FlattenIds(ss) == IF ss = <<>> THEN <<>> ELSE Head(ss) \o FlattenIds(Tail(ss))

\* the metadata files found, the artifacts behind them forgotten
_get_metadata_without_artifacts(action_details) ==
    LET md == SelectSeq(action_details.parameters, LAMBDA p : p.kind = "metadata")
    IN [ all_metadata |-> [k \in 1..Len(md) |-> <<md[k].name, md[k].relative_fp>>],
         artifacts_as_metadata |-> <<>> ]

\* (all_metadata, artifacts_as_metadata) of an action's parameters
_get_metadata_from_Action(action_details) ==
    LET md == SelectSeq(action_details.parameters, LAMBDA p : p.kind = "metadata")
    IN [ all_metadata |-> [k \in 1..Len(md) |-> <<md[k].name, md[k].relative_fp>>],
         artifacts_as_metadata |->
            FlattenIds([k \in 1..Len(md) |-> md[k].input_artifact_uuids]) ]

\* the tables of the metadata files, keyed by parameter name; KeyError when
\* the zip holds no such file
_parse_metadata(z, uuid, metadata_fps) ==
    LET root_uuid == get_root_uuid(z)
        pfx == IF root_uuid = uuid
               THEN <<root_uuid, "provenance", "action">>
               ELSE <<root_uuid, "provenance", "artifacts", uuid, "action">>
    IN IF \E k \in 1..Len(metadata_fps) :
             ~InSeq(pfx \o <<metadata_fps[k][2]>>, z.namelist)
       THEN [raised |-> "KeyError", all_md |-> {}]
       ELSE [raised |-> "",
             all_md |-> { metadata_fps[k][1] : k \in 1..Len(metadata_fps) }]

RECURSIVE ReadNodeFiles(_, _, _, _)
ReadNodeFiles(z, fps, i, self) ==
    IF i > Len(fps) \/ self.raised # "" THEN self
    ELSE LET fp == fps[i]
             name == PathName(fp)
             there == InSeq(fp, z.namelist)
         IN ReadNodeFiles(z, fps, i + 1,
              CASE name = "VERSION" ->
                     LET pv == parse_version(z, fp)
                     IN IF pv.raised # "" THEN [self EXCEPT !.raised = pv.raised]
                        ELSE [self EXCEPT !._archive_version = pv.archive_version]
                [] name = "metadata.yaml" ->
                     IF there THEN [self EXCEPT !._uuid = z.metadata[fp]]
                     ELSE [self EXCEPT !.raised = "KeyError"]
                [] name = "action.yaml" ->
                     IF there THEN [self EXCEPT !.has_action = TRUE,
                                                !.action = z.action[fp]]
                     ELSE [self EXCEPT !.raised = "KeyError"]
                [] name = "citations.bib" ->
                     IF there THEN [self EXCEPT !.has_citations = TRUE]
                     ELSE [self EXCEPT !.raised = "KeyError"]
                [] OTHER -> self)


\* the end of ProvNode.__init__ with the configuration not consulted
ProvNodeMetadataUnasked(c, z, self, got) ==
    IF self._uuid = "unset" THEN [self EXCEPT !.raised = "AttributeError"]
    ELSE IF _parse_metadata(z, self._uuid, got.all_metadata).raised # ""
    THEN [self EXCEPT !.raised = "KeyError"]
    ELSE [self EXCEPT !._artifacts_passed_as_md = got.artifacts_as_metadata,
                      !.has_metadata = TRUE,
                      !._metadata = { got.all_metadata[k][1] :
                                        k \in 1..Len(got.all_metadata) }]

\* the end of ProvNode.__init__: the metadata of a node with provenance
ProvNodeMetadata(c, z, self, got) ==
    IF ~c.parse_study_metadata
    THEN [self EXCEPT !._artifacts_passed_as_md = got.artifacts_as_metadata]
    ELSE IF self._uuid = "unset" THEN [self EXCEPT !.raised = "AttributeError"]
    ELSE IF _parse_metadata(z, self._uuid, got.all_metadata).raised # ""
    THEN [self EXCEPT !.raised = "KeyError"]
    ELSE [self EXCEPT !._artifacts_passed_as_md = got.artifacts_as_metadata,
                      !.has_metadata = TRUE,
                      !._metadata = { got.all_metadata[k][1] :
                                        k \in 1..Len(got.all_metadata) }]

ProvNodeFinish(c, z, self) ==
    IF self.raised # "" THEN self
    ELSE IF self._archive_version = "unset"
    THEN [self EXCEPT !.raised = "AttributeError"]
    ELSE IF ~has_provenance(self) THEN self
    ELSE IF ~self.has_action THEN [self EXCEPT !.raised = "AttributeError"]
    ELSE ProvNodeMetadata(c, z, self, _get_metadata_from_Action(self.action))

ProvNode(c, z, fps_for_this_result) ==
    ProvNodeFinish(c, z, ReadNodeFiles(z, fps_for_this_result, 1, BlankNode))

\* the entry dict of a citations.bib that was read: its bibtex ids
ReadBib == {"framework|qiime2"}

\* ProvNode.citations (archive_parser.py): a property that answers {} when
\* no citations.bib was handed to __init__
citations(node) ==
    [raised |-> "", value |-> IF node.has_citations THEN ReadBib ELSE {}]

\* node.citations (parse.py): an attribute __init__ assigns only when a
\* citations.bib is among the files; reading it otherwise is AttributeError
citations_parse_py(node) ==
    IF node.has_citations THEN [raised |-> "", value |-> ReadBib]
    ELSE [raised |-> "AttributeError", value |-> {}]

\* one derived parent: a single-item {role name: uuid} dict
Parent(n, id) == [name |-> n, uuid |-> id]

\* the entries one input contributes (archive_parser.py): a collection is
\* expanded into name_0, name_1, ...; a None value is skipped
ExpandInput(input) ==
    IF input.kind = "list"
    THEN [i \in 1..Len(input.ids) |->
            Parent(input.name \o "_" \o ToString(i - 1), input.ids[i])]
    ELSE IF input.kind = "uuid" THEN << Parent(input.name, input.ids[1]) >>
    ELSE <<>>

RECURSIVE ExpandInputs(_)
ExpandInputs(inputs) ==
    IF inputs = <<>> THEN <<>>
    ELSE ExpandInput(Head(inputs)) \o ExpandInputs(Tail(inputs))

MdParents(node) ==
    [k \in 1..Len(node._artifacts_passed_as_md) |->
        Parent("artifact_passed_as_metadata", node._artifacts_passed_as_md[k])]

\* what a _parents read gives before any was made
NoParents == [raised |-> "", none |-> TRUE, list |-> <<>>]

\* value[i] on a set: a set takes no subscript, so the first turn of the
\* loop over a set that is not empty raises TypeError
SubscriptsASet(inputs) ==
    \E k \in 1..Len(inputs) : inputs[k].kind = "set" /\ inputs[k].ids # <<>>

\* ProvNode._parents (archive_parser.py): None without provenance
_parents(node) ==
    IF ~has_provenance(node) THEN NoParents
    ELSE IF SubscriptsASet(node.action.inputs)
    THEN [raised |-> "TypeError", none |-> FALSE, list |-> <<>>]
    ELSE [raised |-> "", none |-> FALSE,
          list |-> ExpandInputs(node.action.inputs) \o MdParents(node)]

----------------------------------------------------------------------------
(* The digraph (networkx.DiGraph): nodes, their attribute dicts, edges.     *)

NoneData == [none |-> TRUE]

Attrs(keys, nd, hp) == [keys |-> keys, node_data |-> nd, has_provenance |-> hp]

EmptyAttrs == Attrs({}, NoneData, FALSE)

\* edges added without their endpoints becoming nodes
add_edges_only(g, ebunch) == [g EXCEPT !.edges = g.edges \cup ebunch]

\* DiGraph.add_edges_from: endpoints not yet in the graph become nodes with
\* an empty attribute dict
add_edges_from(g, ebunch) ==
    LET ends == { e[1] : e \in ebunch } \cup { e[2] : e \in ebunch }
        nodes == g.nodes \cup ends
    IN [ nodes |-> nodes,
         attr  |-> [n \in nodes |-> IF n \in g.nodes THEN g.attr[n] ELSE EmptyAttrs],
         edges |-> g.edges \cup ebunch ]

\* nbunch: one node per parsed ProvNode, with both attributes
NodeBunch(archive_contents) ==
    [ nodes |-> DOMAIN archive_contents,
      attr  |-> [n \in DOMAIN archive_contents |->
                    Attrs({"node_data", "has_provenance"}, archive_contents[n],
                          has_provenance(archive_contents[n]))],
      edges |-> {} ]

\* ebunch: a (parent_uuid, node_id) pair for every parent of every node
EdgesInto(n, parents) ==
    { <<parents.list[k].uuid, n>> : k \in 1..Len(parents.list) }

EdgeBunch(g) ==
    UNION { EdgesInto(n, _parents(g.attr[n].node_data)) : n \in g.nodes }

\* the graph without the last loop
LeaveParentsBare(g) == g

\* the last loop: nodes that came in as parents only get both attributes
FillNoProvenance(g) ==
    [g EXCEPT !.attr =
        [n \in g.nodes |->
            IF "node_data" \notin g.attr[n].keys \/ g.attr[n].node_data = NoneData
            THEN Attrs(g.attr[n].keys \cup {"node_data", "has_provenance"},
                       NoneData, FALSE)
            ELSE g.attr[n]]]

AddParentEdges(g) == add_edges_from(g, EdgeBunch(g))

_digraph_from_archive_contents(archive_contents) ==
    FillNoProvenance(AddParentEdges(NodeBunch(archive_contents)))


----------------------------------------------------------------------------
(* archive_parser.py: ArtifactParser.get_parser and ParserVx.parse_prov.    *)

NoResults == [none |-> TRUE]

ParserResults(uuids, g, valid, diff) ==
    [ none |-> FALSE,
      parsed_artifact_uuids |-> uuids,
      prov_digraph |-> g,
      provenance_is_valid |-> valid,
      checksum_diff |-> diff ]

\* what a call hands back: the exception raised ("" if none), the value
\* returned, the warnings emitted and the validator calls made
Outcome(exc, value, nwarn, ncalls) ==
    [raised |-> exc, value |-> value, warnings |-> nwarn, validator_calls |-> ncalls]

\* ParserV0/ParserV1._validate_checksums and ParserV5._validate_checksums
_validate_checksums(cls, z) ==
    IF cls = "5"
    THEN [pair |-> validate_checksums(z), calls |-> 1]
    ELSE [pair |-> <<"PREDATES_CHECKSUMS", NoDiff>>, calls |-> 0]

\* the first statement without the opt-out branch
ChecksumStepNoOptOut(cls, c, z) == _validate_checksums(cls, z)

\* the first statement of every parse_prov
ChecksumStep(cls, c, z) ==
    IF c.perform_checksum_validation THEN _validate_checksums(cls, z)
    ELSE [pair |-> <<"VALIDATION_OPTOUT", NoDiff>>, calls |-> 0]

\* the root metadata taken from the second path segment, unchecked
_parse_root_md_unchecked(z, root_uuid) == [raised |-> "", uuid |-> z.namelist[1][2]]

\* ParserV0._parse_root_md: the root metadata.yaml, or ValueError
_parse_root_md(z, root_uuid) ==
    IF ~InSeq(<<root_uuid, "metadata.yaml">>, z.namelist)
    THEN [raised |-> "ValueError", uuid |-> ""]
    ELSE [raised |-> "", uuid |-> z.metadata[<<root_uuid, "metadata.yaml">>]]

\* the return statement of ParserV0.parse_prov
ParserV0Return(chk, uuid, root_md, node) ==
    IF root_md.raised # "" THEN Outcome(root_md.raised, NoResults, 1, chk.calls)
    ELSE IF node.raised # "" THEN Outcome(node.raised, NoResults, 1, chk.calls)
    ELSE Outcome("",
             ParserResults({root_md.uuid},
                           _digraph_from_archive_contents(uuid :> node),
                           chk.pair[1], chk.pair[2]),
             1, chk.calls)

ParserV0_parse_prov(c, z) ==
    ParserV0Return(ChecksumStep("0", c, z), get_root_uuid(z),
                   _parse_root_md(z, get_root_uuid(z)),
                   ProvNode(c, z, Qualify(<<get_root_uuid(z)>>,
                                          ParserV0_expected_files_in_all_nodes)))

\* ParserV1._get_prov_data_fps
_get_prov_data_fps(z, expected_files_all_nodes, expected_root_only) ==
    SelectSeq(z.namelist,
        LAMBDA fp : /\ InPathString(<<"provenance">>, fp)
                    /\ \E k \in 1..Len(expected_files_all_nodes) :
                          InPathString(expected_files_all_nodes[k], fp))
    \o Qualify(<<get_root_uuid(z)>>, expected_root_only)

\* a check that finds nothing missing
files_never_missing(fps_for_this_result, prov_data_fps) == FALSE

\* `if fp not in prov_data_fps` for some expected file of the node
files_are_missing(fps_for_this_result, prov_data_fps) ==
    \E k \in 1..Len(fps_for_this_result) :
        ~InSeq(fps_for_this_result[k], prov_data_fps)

\* node id and folder prefix of one enumerated path
IsRootPath(fp) == ~InSeq("artifacts", fp)

PrefixOf(fp, root_uuid) ==
    IF IsRootPath(fp) THEN <<root_uuid, "provenance">>
    ELSE SubSeq(fp, 1, Min(4, Len(fp)))

\* the files handed to ProvNode for the node of path fp, under the
\* expected-file set of the node's own version
FpsForThisResult(cls, fp, root_uuid, result_vzn) ==
    (IF IsRootPath(fp) THEN Qualify(<<root_uuid>>, expected_files_root_only(cls))
     ELSE <<>>)
    \o Qualify(PrefixOf(fp, root_uuid), expected_files_in_all_nodes(result_vzn))

\* what one new node id does to the loop: "" and the node, or the exception
NewNode(cls, c, z, prov_data_fps, fp, result_vzn) ==
    IF result_vzn.raised # "" THEN [BlankNode EXCEPT !.raised = result_vzn.raised]
    ELSE IF result_vzn.archive_version \notin FORMAT_REGISTRY
    THEN [BlankNode EXCEPT !.raised = "KeyError"]
    ELSE IF files_are_missing(
              FpsForThisResult(cls, fp, get_root_uuid(z), result_vzn.archive_version),
              prov_data_fps)
    THEN [BlankNode EXCEPT !.raised = "ValueError"]
    ELSE ProvNode(c, z,
              FpsForThisResult(cls, fp, get_root_uuid(z), result_vzn.archive_version))

\* the loop `for fp in prov_data_fps` of ParserV1.parse_prov, from entry i on
RECURSIVE NodeLoop(_, _, _, _, _, _)

NodeLoopStep(cls, c, z, prov_data_fps, i, archv_contents, node_uuid, node) ==
    IF node.raised # "" THEN [raised |-> node.raised, contents |-> archv_contents]
    ELSE NodeLoop(cls, c, z, prov_data_fps, i + 1,
                  archv_contents @@ (node_uuid :> node))

NodeLoopBody(cls, c, z, prov_data_fps, i, archv_contents, fp, node_uuid) ==
    IF node_uuid \in DOMAIN archv_contents
    THEN NodeLoop(cls, c, z, prov_data_fps, i + 1, archv_contents)
    ELSE NodeLoopStep(cls, c, z, prov_data_fps, i, archv_contents, node_uuid,
            NewNode(cls, c, z, prov_data_fps, fp,
                parse_version(z, PrefixOf(fp, get_root_uuid(z)) \o <<"VERSION">>)))

NodeLoop(cls, c, z, prov_data_fps, i, archv_contents) ==
    IF i > Len(prov_data_fps) THEN [raised |-> "", contents |-> archv_contents]
    ELSE NodeLoopBody(cls, c, z, prov_data_fps, i, archv_contents,
            prov_data_fps[i],
            IF IsRootPath(prov_data_fps[i]) THEN get_root_uuid(z)
            ELSE get_nonroot_uuid(prov_data_fps[i]))

\* the return statement of ParserV1.parse_prov
ParserV1Return(chk, root_md, loop) ==
    IF root_md.raised # "" THEN Outcome(root_md.raised, NoResults, 0, chk.calls)
    ELSE IF loop.raised # "" THEN Outcome(loop.raised, NoResults, 0, chk.calls)
    ELSE Outcome("",
             ParserResults({root_md.uuid},
                           _digraph_from_archive_contents(loop.contents),
                           chk.pair[1], chk.pair[2]),
             0, chk.calls)

\* ParserV1.parse_prov, inherited by ParserV2 .. ParserV5
ParserV1_parse_prov(cls, c, z) ==
    ParserV1Return(ChecksumStep(cls, c, z),
                   _parse_root_md(z, get_root_uuid(z)),
                   NodeLoop(cls, c, z,
                       _get_prov_data_fps(z, expected_files_in_all_nodes(cls),
                                          expected_files_root_only(cls)),
                       1, <<>>))

parse_prov(cls, c, z) ==
    IF cls = "0" THEN ParserV0_parse_prov(c, z)
    ELSE ParserV1_parse_prov(cls, c, z)

\* a registry that answers an unknown version with its newest parser
RegistryLookupNewest(v) ==
    IF v.raised # "" THEN [raised |-> v.raised, parser |-> ""]
    ELSE IF v.archive_version \notin FORMAT_REGISTRY
    THEN [raised |-> "", parser |-> "5"]
    ELSE [raised |-> "", parser |-> v.archive_version]

\* the registry lookup on the version string read
RegistryLookup(v) ==
    IF v.raised # "" THEN [raised |-> v.raised, parser |-> ""]
    ELSE IF v.archive_version \notin FORMAT_REGISTRY
    THEN [raised |-> "KeyError", parser |-> ""]
    ELSE [raised |-> "", parser |-> v.archive_version]

\* os.path.isdir(artifact_data)
is_dir(artifact_data) == "is_dir" \in DOMAIN artifact_data

\* ArtifactParser.get_parser: a directory is refused; else the registered
\* parser of the root VERSION, any exception raised again under its own type
get_parser(z) ==
    IF is_dir(z) THEN [raised |-> "ValueError", parser |-> ""]
    ELSE RegistryLookup(parse_version(z, <<get_root_uuid(z), "VERSION">>))

----------------------------------------------------------------------------
(* parse.py: the older parsers behind FormatHandler, and ProvDAG.           *)

\* ProvNode._parents (parse.py): the raw inputs list, collections and all
_parents_parse_py(node) ==
    IF ~has_provenance(node) THEN NoParents
    ELSE [raised |-> "", none |-> FALSE,
          list |-> node.action.inputs
                   \o [k \in 1..Len(node._artifacts_passed_as_md) |->
                         In1("artifact_passed_as_metadata",
                             node._artifacts_passed_as_md[k])]]

\* ParserV1._get_nonroot_uuid (parse.py)
_get_nonroot_uuid(fp) ==
    IF PathName(fp) = "action.yaml" THEN fp[Len(fp) - 2] ELSE fp[Len(fp) - 1]

\* ParserV1._get_prov_data_fps (parse.py)
_get_prov_data_fps_parse_py(z, expected_files) ==
    SelectSeq(z.namelist,
        LAMBDA fp : /\ InPathString(<<"provenance">>, fp)
                    /\ \E k \in 1..Len(expected_files) :
                          InPathString(expected_files[k], fp))

\* the parser results of parse.py: the root metadata and the node map
ParserResults_parse_py(root_md, contents, valid, diff) ==
    [ none |-> FALSE,
      root_md |-> root_md,
      archive_contents |-> contents,
      provenance_is_valid |-> valid,
      checksum_diff |-> diff ]

ParserV0Return_parse_py(chk, uuid, root_md, node) ==
    IF root_md.raised # "" THEN Outcome(root_md.raised, NoResults, 1, chk.calls)
    ELSE IF node.raised # "" THEN Outcome(node.raised, NoResults, 1, chk.calls)
    ELSE Outcome("",
             ParserResults_parse_py(root_md.uuid, uuid :> node,
                                    chk.pair[1], chk.pair[2]),
             1, chk.calls)

\* ParserV0.parse_prov (parse.py)
ParserV0_parse_prov_parse_py(c, z) ==
    ParserV0Return_parse_py(ChecksumStep("0", c, z), get_root_uuid(z),
        _parse_root_md(z, get_root_uuid(z)),
        ProvNode(c, z, Qualify(<<get_root_uuid(z)>>,
                               ParserV0_expected_files_in_all_nodes)))

\* what one new node id does to the loop (parse.py): every node is checked
\* against the expected files of the archive's own parser
NewNode_parse_py(c, z, prov_data_fps, fps_for_this_result) ==
    IF files_are_missing(fps_for_this_result, prov_data_fps)
    THEN [BlankNode EXCEPT !.raised = "ValueError"]
    ELSE ProvNode(c, z, fps_for_this_result)

\* the loop of ParserV1.parse_prov (parse.py), from entry i on
RECURSIVE NodeLoop_parse_py(_, _, _, _, _, _)

NodeLoopStep_parse_py(cls, c, z, prov_data_fps, i, archv_contents, node_uuid, node) ==
    IF node.raised # "" THEN [raised |-> node.raised, contents |-> archv_contents]
    ELSE NodeLoop_parse_py(cls, c, z, prov_data_fps, i + 1,
                           archv_contents @@ (node_uuid :> node))

NodeLoopBody_parse_py(cls, c, z, prov_data_fps, i, archv_contents, fp, node_uuid) ==
    IF node_uuid \in DOMAIN archv_contents
    THEN NodeLoop_parse_py(cls, c, z, prov_data_fps, i + 1, archv_contents)
    ELSE NodeLoopStep_parse_py(cls, c, z, prov_data_fps, i, archv_contents, node_uuid,
            NewNode_parse_py(c, z, prov_data_fps,
                Qualify(PrefixOf(fp, get_root_uuid(z)),
                        expected_files_in_all_nodes(cls))))

NodeLoop_parse_py(cls, c, z, prov_data_fps, i, archv_contents) ==
    IF i > Len(prov_data_fps) THEN [raised |-> "", contents |-> archv_contents]
    ELSE NodeLoopBody_parse_py(cls, c, z, prov_data_fps, i, archv_contents,
            prov_data_fps[i],
            IF IsRootPath(prov_data_fps[i]) THEN get_root_uuid(z)
            ELSE _get_nonroot_uuid(prov_data_fps[i]))

ParserV1Return_parse_py(chk, root_md, loop) ==
    IF root_md.raised # "" THEN Outcome(root_md.raised, NoResults, 0, chk.calls)
    ELSE IF loop.raised # "" THEN Outcome(loop.raised, NoResults, 0, chk.calls)
    ELSE Outcome("",
             ParserResults_parse_py(root_md.uuid, loop.contents,
                                    chk.pair[1], chk.pair[2]),
             0, chk.calls)

\* ParserV1.parse_prov (parse.py), inherited by ParserV2 .. ParserV5
ParserV1_parse_prov_parse_py(cls, c, z) ==
    ParserV1Return_parse_py(ChecksumStep(cls, c, z),
        _parse_root_md(z, get_root_uuid(z)),
        NodeLoop_parse_py(cls, c, z,
            _get_prov_data_fps_parse_py(z,
                expected_files_in_all_nodes(cls) \o expected_files_root_only(cls)),
            1, <<>>))

\* FormatHandler.parse on the parser FormatHandler.__init__ picked
FormatHandlerDispatch(c, z, picked) ==
    IF picked.raised # "" THEN Outcome(picked.raised, NoResults, 0, 0)
    ELSE IF picked.parser = "0" THEN ParserV0_parse_prov_parse_py(c, z)
    ELSE ParserV1_parse_prov_parse_py(picked.parser, c, z)

\* FormatHandler.__init__ and FormatHandler.parse
FormatHandler_parse(c, z) ==
    FormatHandlerDispatch(c, z,
        RegistryLookup(parse_version(z, <<get_root_uuid(z), "VERSION">>)))

NoMemo == [cached |-> FALSE, uuids |-> {}]

NoDag == [none |-> TRUE]

\* the parents ProvDAG.__init__ reads off the nodes
RawParentsOf(parents) == { parents.list[k] : k \in 1..Len(parents.list) }

RawParents(g) ==
    UNION { RawParentsOf(_parents_parse_py(g.attr[n].node_data)) : n \in g.nodes }

\* ebunch of ProvDAG.__init__: the parent value itself is the edge's source
EdgesInto_parse_py(n, parents) ==
    { <<parents.list[k].ids[1], n>> : k \in 1..Len(parents.list) }

EdgeBunch_parse_py(g) ==
    UNION { EdgesInto_parse_py(n, _parents_parse_py(g.attr[n].node_data)) :
            n \in g.nodes }

\* a ProvDAG object
ProvDAG(g, uuids, memo, valid, diff) ==
    [ none |-> FALSE,
      dag |-> g,
      _parsed_artifact_uuids |-> uuids,
      _terminal_uuids |-> memo,
      _provenance_is_valid |-> valid,
      _checksum_diff |-> diff ]

\* the graph-building half of ProvDAG.__init__; a parent value that is a
\* list cannot be a node (TypeError: unhashable type)
BuildDag(parser_results, withNodes) ==
    IF \E p \in RawParents(withNodes) : p.kind # "uuid"
    THEN [raised |-> "TypeError", value |-> NoDag]
    ELSE [raised |-> "",
          value |-> ProvDAG(
              FillNoProvenance(add_edges_from(withNodes, EdgeBunch_parse_py(withNodes))),
              {parser_results.root_md}, NoMemo,
              parser_results.provenance_is_valid, parser_results.checksum_diff)]

ProvDAGFromParse(parsed, built) ==
    IF parsed.raised # "" THEN [parsed EXCEPT !.value = NoDag]
    ELSE Outcome(built.raised, built.value, parsed.warnings, parsed.validator_calls)

ProvDAGBuild(parsed) ==
    ProvDAGFromParse(parsed,
        IF parsed.raised # "" THEN [raised |-> parsed.raised, value |-> NoDag]
        ELSE BuildDag(parsed.value, NodeBunch(parsed.value.archive_contents)))

\* ProvDAG.__init__: parse, then nodes, edges and the no-provenance attributes
ProvDAG_init(c, z) == ProvDAGBuild(FormatHandler_parse(c, z))

\* DiGraph.out_edges(node): the children of a node
Successors(g, n) == { e[2] : e \in { f \in g.edges : f[1] = n } }

\* DiGraph.in_edges(node): the parents of a node
Predecessors(g, n) == { e[1] : e \in { f \in g.edges : f[2] = n } }

\* a walk that returns the node and its parents and goes no further
NestedWalkParentsOnly(g, node_id, fuel) == {node_id} \cup Predecessors(g, node_id)

\* ProvDAG.get_nested_provenance_nodes: the node and, recursively, the
\* nested nodes of each of its parents.  Python gives up with RecursionError
\* when the walk never ends; fuel counts the frames left.
RECURSIVE NestedWalk(_, _, _)
NestedWalk(g, node_id, fuel) ==
    IF fuel = 0 THEN {"RecursionError"}
    ELSE {node_id} \cup UNION { NestedWalk(g, p, fuel - 1) : p \in Predecessors(g, node_id) }

get_nested_provenance_nodes(g, node_id) ==
    NestedWalk(g, node_id, Cardinality(g.nodes) + 1)

NoView == [raised |-> "", nodes |-> {}, edges |-> {}]

\* the filtered view of nested_view, given the nodes the walks returned
SubgraphView(g, walked) ==
    [ raised |-> IF "RecursionError" \in walked THEN "RecursionError" ELSE "",
      nodes |-> g.nodes \cap walked,
      edges |-> { e \in g.edges : e[1] \in walked /\ e[2] \in walked } ]

\* ProvDAG.nested_view: the subgraph on the nested nodes of the parsed uuids
nested_view(self) ==
    SubgraphView(self.dag,
        UNION { get_nested_provenance_nodes(self.dag, t) :
                  t \in self._parsed_artifact_uuids })

\* the nodes of the view with out-degree zero
ZeroOutDegree(nv) ==
    { n \in nv.nodes : ~\E e \in nv.edges : e[1] = n }

\* the slow path of terminal_uuids: compute from the view and memoize
MemoizeTerminals(self, nv, terminals) ==
    IF nv.raised # "" THEN [raised |-> nv.raised, value |-> {}, self |-> self]
    ELSE [raised |-> "", value |-> terminals,
          self |-> [self EXCEPT !._terminal_uuids =
                        [cached |-> TRUE, uuids |-> terminals]]]

ComputeTerminals(self, nv) == MemoizeTerminals(self, nv, ZeroOutDegree(nv))

\* ProvDAG.terminal_uuids: the memo if set, else computed and memoized
terminal_uuids(self) ==
    IF self._terminal_uuids.cached
    THEN [raised |-> "", value |-> self._terminal_uuids.uuids, self |-> self]
    ELSE ComputeTerminals(self, nested_view(self))

----------------------------------------------------------------------------
\* dict.update on a node's attribute dict
UpdateAttrs(base, upd) ==
    Attrs(base.keys \cup upd.keys,
          IF "node_data" \in upd.keys THEN upd.node_data ELSE base.node_data,
          IF "has_provenance" \in upd.keys THEN upd.has_provenance
          ELSE base.has_provenance)

\* one round of networkx's in-place relabel: old becomes new.  A label that
\* is not a node is skipped; an existing node `new` takes old's attributes
\* and edges as well as its own.
RelabelOne(g, old, new) ==
    IF old \notin g.nodes \/ new = old THEN g
    ELSE LET new_edges ==
                 { <<new, IF e[2] = old THEN new ELSE e[2]>> :
                     e \in { f \in g.edges : f[1] = old } }
                 \cup { <<IF e[1] = old THEN new ELSE e[1], new>> :
                          e \in { f \in g.edges : f[2] = old } }
             nodes == (g.nodes \ {old}) \cup {new}
         IN [ nodes |-> nodes,
              attr  |-> [n \in nodes |->
                           IF n # new THEN g.attr[n]
                           ELSE IF new \in g.nodes
                           THEN UpdateAttrs(g.attr[new], g.attr[old])
                           ELSE g.attr[old]],
              edges |-> { e \in g.edges : e[1] # old /\ e[2] # old }
                        \cup new_edges ]

RECURSIVE RelabelInPlace(_, _, _)
RelabelInPlace(g, mapping, order) ==
    IF order = <<>> THEN g
    ELSE RelabelInPlace(RelabelOne(g, Head(order), mapping[Head(order)]),
                        mapping, Tail(order))

\* the sequences without repetition over a set
RECURSIVE Orderings(_)
Orderings(S) ==
    IF S = {} THEN { <<>> }
    ELSE UNION { { <<x>> \o t : t \in Orderings(S \ {x}) } : x \in S }

Before(order, x, y) ==
    \E i, j \in 1..Len(order) : i < j /\ order[i] = x /\ order[j] = y

\* the orders networkx may relabel in: any order when no new label is an
\* old one, else a reversed topological order of the mapping's own digraph,
\* in which a label is handled before the labels that map to it
RelabelOrders(mapping) ==
    { o \in Orderings(DOMAIN mapping) :
        \A k \in DOMAIN mapping :
            (mapping[k] # k /\ mapping[k] \in DOMAIN mapping)
                => Before(o, mapping[k], k) }

\* relabel_nodes with its last statement left out
relabel_nodes_in_keep_memo(self, mapping, order) ==
    IF \E uuid \in self._parsed_artifact_uuids : uuid \notin DOMAIN mapping
    THEN [raised |-> "KeyError",
          self |-> [self EXCEPT !.dag = RelabelInPlace(self.dag, mapping, order)]]
    ELSE [raised |-> "",
          self |-> [self EXCEPT
                      !.dag = RelabelInPlace(self.dag, mapping, order),
                      !._parsed_artifact_uuids =
                          { mapping[uuid] : uuid \in self._parsed_artifact_uuids }]]

\* over a relabel order that networkx could pick
relabel_nodes_in(self, mapping, order) ==
    IF \E uuid \in self._parsed_artifact_uuids : uuid \notin DOMAIN mapping
    THEN [raised |-> "KeyError",
          self |-> [self EXCEPT !.dag = RelabelInPlace(self.dag, mapping, order)]]
    ELSE [raised |-> "",
          self |-> [self EXCEPT
                      !.dag = RelabelInPlace(self.dag, mapping, order),
                      !._parsed_artifact_uuids =
                          { mapping[uuid] : uuid \in self._parsed_artifact_uuids },
                      !._terminal_uuids = NoMemo]]

\* ProvDAG.relabel_nodes: the graph is relabelled in place, then the parsed
\* uuids are looked up in the mapping, then the memo is cleared.  A mapping
\* whose labels chase each other in a cycle is refused by networkx.
relabel_nodes(self, mapping) ==
    IF RelabelOrders(mapping) = {}
    THEN { [raised |-> "NetworkXUnfeasible", self |-> self] }
    ELSE { relabel_nodes_in(self, mapping, o) : o \in RelabelOrders(mapping) }

\* a composition that takes the second graph's nodes and leaves its edges
ComposeNodesOnly(g, h) ==
    [ nodes |-> g.nodes \cup h.nodes,
      attr  |-> [n \in g.nodes \cup h.nodes |->
                   IF n \notin h.nodes THEN g.attr[n]
                   ELSE IF n \notin g.nodes THEN h.attr[n]
                   ELSE UpdateAttrs(g.attr[n], h.attr[n])],
      edges |-> g.edges ]

\* networkx.compose: nodes and edges of both, the attributes of the second
\* written over those of the first
Compose(g, h) ==
    [ nodes |-> g.nodes \cup h.nodes,
      attr  |-> [n \in g.nodes \cup h.nodes |->
                   IF n \notin h.nodes THEN g.attr[n]
                   ELSE IF n \notin g.nodes THEN h.attr[n]
                   ELSE UpdateAttrs(g.attr[n], h.attr[n])],
      edges |-> g.edges \cup h.edges ]

RECURSIVE compose_all(_)
compose_all(dags) ==
    IF Len(dags) = 1 THEN dags[1]
    ELSE Compose(dags[1], compose_all(Tail(dags)))

\* the receiver's graph shared with every one of the others
SharedWithAll(self, the_others) == 1..Len(the_others)

\* the others whose graph object self.dag is after union: none, compose_all
\* builds a graph of its own and copies nodes, attribute dicts and edges in
SharedAfterUnion(self, the_others) == {}

\* ProvDAG.union: self.dag becomes the composition; then a set of the
\* others' uuid sets is built, which Python refuses (a set is unhashable)
\* unless `others` yields nothing on this second pass, as an empty list or
\* an iterator already used up by the first pass does
union(self, the_others, is_iterator) ==
    IF the_others = <<>> \/ is_iterator
    THEN [raised |-> "",
          self |-> [self EXCEPT
                      !.dag = compose_all(<<self.dag>>
                                  \o [i \in 1..Len(the_others) |-> the_others[i].dag]),
                      !._terminal_uuids = NoMemo]]
    ELSE [raised |-> "TypeError",
          self |-> [self EXCEPT
                      !.dag = compose_all(<<self.dag>>
                                  \o [i \in 1..Len(the_others) |-> the_others[i].dag])]]

----------------------------------------------------------------------------
(* Parsing one archive: the caller picks an archive and a configuration,    *)
(* then either asks archive_parser for a parser and parses, or constructs   *)
(* a ProvDAG (parse.py).                                                    *)

Init ==
    /\ zf \in Archives
    /\ cfg \in Configs
    /\ results = NoResults
    /\ dag = NoDag
    /\ parser = ""
    /\ others = <<>>
    /\ view = NoView
    /\ ret = {}
    /\ raised = ""
    /\ warned = 0
    /\ validated = 0
    /\ calls = 0
    /\ alias = {}
    /\ provnode = BlankNode
    /\ got_parents = NoParents
    /\ pc = "start"

\* parser = ArtifactParser.get_parser(archive)
GetParser ==
    /\ pc = "start"
    /\ LET got == get_parser(zf)
       IN /\ parser' = got.parser
          /\ raised' = got.raised
    /\ pc' = "get_parser"
    /\ UNCHANGED <<zf, cfg, results, dag, others, view, ret, warned, validated, calls,
                   alias, provnode, got_parents>>

\* results = parser.parse_prov(cfg, archive)
ParseProv ==
    /\ pc = "get_parser"
    /\ parser # ""
    /\ LET out == parse_prov(parser, cfg, zf)
       IN /\ results' = out.value
          /\ raised' = out.raised
          /\ warned' = warned + out.warnings
          /\ validated' = validated + out.validator_calls
    /\ pc' = "parse_prov"
    /\ UNCHANGED <<zf, cfg, dag, parser, others, view, ret, calls,
                   alias, provnode, got_parents>>

\* dag = ProvDAG(archive, cfg)
NewProvDAG ==
    /\ pc = "start"
    /\ LET out == ProvDAG_init(cfg, zf)
       IN /\ dag' = out.value
          /\ raised' = out.raised
          /\ warned' = warned + out.warnings
          /\ validated' = validated + out.validator_calls
    /\ pc' = "ProvDAG"
    /\ UNCHANGED <<zf, cfg, results, parser, others, view, ret, calls,
                   alias, provnode, got_parents>>

\* view = dag.nested_view
NestedView ==
    /\ pc = "ProvDAG"
    /\ raised = ""
    /\ view' = nested_view(dag)
    /\ pc' = "nested_view"
    /\ UNCHANGED <<zf, cfg, results, dag, parser, others, ret, raised, warned,
                   validated, calls,
                   alias, provnode, got_parents>>

Next == GetParser \/ ParseProv \/ NewProvDAG \/ NestedView

Spec == Init /\ [][Next]_vars

----------------------------------------------------------------------------
(* A ProvDAG in use: the caller constructs one, constructs others from      *)
(* other archives, and calls terminal_uuids, relabel_nodes and union on it. *)

MaxOthers == 1

MaxCalls == 2

MaxMapping == 2

\* c <- b, an archive of its own whose root is c
LineageOtherRoot ==
    [i \in {"b", "c"} |->
        IF i = "c" THEN Act("method", <<In1("table", "b")>>, <<>>) ELSE Import]

AllV5(L) == [i \in DOMAIN L |-> "5"]

DagArchives ==
    { MakeArchive(L, AllV5(L), <<>>, TRUE) :
        L \in {LineageChain, LineagePipeline, LineageNoProvParent} }

\* b alone, the archive of the imported artifact the chain starts from
LineageInputAlone == [i \in {"b"} |-> Import]

\* the archives of the others: one sound, one whose data no longer matches
\* its checksums.md5
OtherArchives ==
    { MakeArchiveAt("c", LineageOtherRoot, AllV5(LineageOtherRoot), <<>>, TRUE),
      MakeArchiveAt("b", LineageInputAlone, AllV5(LineageInputAlone), <<>>, FALSE) }

\* the labels a caller relabels to
Labels == {"a", "x"}

\* the mappings a caller passes to relabel_nodes
Mappings ==
    UNION { [K -> Labels] :
              K \in { S \in SUBSET Ids : Cardinality(S) \in 1..MaxMapping } }

InitDAG ==
    /\ zf \in DagArchives
    /\ cfg = [perform_checksum_validation |-> TRUE, parse_study_metadata |-> FALSE]
    /\ results = NoResults
    /\ dag = NoDag
    /\ parser = ""
    /\ others = <<>>
    /\ view = NoView
    /\ ret = {}
    /\ raised = ""
    /\ warned = 0
    /\ validated = 0
    /\ calls = 0
    /\ alias = {}
    /\ provnode = BlankNode
    /\ got_parents = NoParents
    /\ pc = "start"

\* others.append(ProvDAG(another archive, cfg))
BuildOther ==
    /\ dag # NoDag
    /\ Len(others) < MaxOthers
    /\ \E z \in OtherArchives : others' = Append(others, ProvDAG_init(cfg, z).value)
    /\ UNCHANGED <<zf, cfg, results, dag, parser, view, ret, raised, warned,
                   validated, calls, pc,
                   alias, provnode, got_parents>>

\* ret = dag.terminal_uuids
TerminalUuids ==
    /\ dag # NoDag
    /\ LET got == terminal_uuids(dag)
       IN /\ dag' = got.self
          /\ raised' = got.raised
          /\ ret' = IF got.raised = "" THEN got.value ELSE ret
    /\ pc' = "terminal_uuids"
    /\ UNCHANGED <<zf, cfg, results, parser, others, view, warned, validated, calls,
                   alias, provnode, got_parents>>

\* dag.relabel_nodes(mapping): networkx relabels the graph object in place,
\* so whoever holds that same object sees the new labels
RelabelNodes ==
    /\ dag # NoDag
    /\ calls < MaxCalls
    /\ \E mapping \in Mappings :
          \E got \in relabel_nodes(dag, mapping) :
              /\ dag' = got.self
              /\ raised' = got.raised
              /\ others' = [i \in 1..Len(others) |->
                              IF i \in alias
                              THEN [others[i] EXCEPT !.dag = got.self.dag]
                              ELSE others[i]]
    /\ calls' = calls + 1
    /\ pc' = "relabel_nodes"
    /\ UNCHANGED <<zf, cfg, results, parser, view, ret, warned, validated, alias, provnode, got_parents>>

\* dag.union(others), others being a list or a generator over it
Union ==
    /\ dag # NoDag
    /\ calls < MaxCalls
    /\ \E is_iterator \in BOOLEAN :
          LET got == union(dag, others, is_iterator)
          IN /\ dag' = got.self
             /\ raised' = got.raised
    /\ alias' = SharedAfterUnion(dag, others)
    /\ calls' = calls + 1
    /\ pc' = "union"
    /\ UNCHANGED <<zf, cfg, results, parser, others, view, ret, warned, validated, provnode, got_parents>>

NextDAG == NewProvDAG \/ BuildOther \/ TerminalUuids \/ RelabelNodes \/ Union

SpecDAG == InitDAG /\ [][NextDAG]_vars

----------------------------------------------------------------------------
(* ProvNode._parents on its own: the caller holds a ProvNode built from an  *)
(* action record and reads its parents, through archive_parser.py or        *)
(* through parse.py.                                                        *)

MaxInputs == 2

MaxCollection == 3

\* an optional input left at its default: {name: None}
InNone(n) == [name |-> n, kind |-> "none", ids |-> <<>>]

\* an input holding a set of uuids, ids in the order the set iterates in
InSet(n, s) == [name |-> n, kind |-> "set", ids |-> s]

\* the uuids a collection input holds
Collections == UNION { [1..n -> {"b", "c"}] : n \in 0..MaxCollection }

\* the entries an action's `inputs` list is made of
InputEntries ==
    {In1("tree", "d"), InNone("mask")}
    \cup { InList("tables", s) : s \in Collections }
    \cup { InSet("tables", s) :
             s \in { t \in Collections : \A i, j \in 1..Len(t) : t[i] = t[j] => i = j } }

InputLists == UNION { [1..n -> InputEntries] : n \in 0..MaxInputs }

\* the ProvNodes read: format version 0 (no action, no provenance), or a
\* version 5 result of an action with these inputs
ProvNodes ==
    { [BlankNode EXCEPT !._uuid = "a", !._archive_version = "0"] }
    \cup { [BlankNode EXCEPT !._uuid = "a", !._archive_version = "5",
                             !.has_action = TRUE,
                             !.action = Act("method", ins, <<>>),
                             !._artifacts_passed_as_md = md] :
             ins \in InputLists, md \in {<<>>, <<"d">>} }

InitParents ==
    /\ zf = MakeArchive(LineageImport, AllV5(LineageImport), <<>>, TRUE)
    /\ cfg = [perform_checksum_validation |-> TRUE, parse_study_metadata |-> FALSE]
    /\ results = NoResults
    /\ dag = NoDag
    /\ parser = ""
    /\ others = <<>>
    /\ view = NoView
    /\ ret = {}
    /\ raised = ""
    /\ warned = 0
    /\ validated = 0
    /\ calls = 0
    /\ alias = {}
    /\ provnode \in ProvNodes
    /\ got_parents = NoParents
    /\ pc = "start"

\* got_parents = provnode._parents, provnode an archive_parser.ProvNode
ReadParents ==
    /\ pc = "start"
    /\ got_parents' = _parents(provnode)
    /\ raised' = _parents(provnode).raised
    /\ pc' = "archive_parser._parents"
    /\ UNCHANGED <<zf, cfg, results, dag, parser, others, view, ret, warned,
                   validated, calls, alias, provnode>>

\* got_parents = provnode._parents, provnode a parse.ProvNode
ReadParents_parse_py ==
    /\ pc = "start"
    /\ got_parents' = _parents_parse_py(provnode)
    /\ raised' = _parents_parse_py(provnode).raised
    /\ pc' = "parse._parents"
    /\ UNCHANGED <<zf, cfg, results, dag, parser, others, view, ret, warned,
                   validated, calls, alias, provnode>>

NextParents == ReadParents \/ ReadParents_parse_py

SpecParents == InitParents /\ [][NextParents]_vars

----------------------------------------------------------------------------
(* The dispatcher on its own: the caller hands ArtifactParser.get_parser an *)
(* archive, sound or not, or a directory.                                   *)

\* a path to a directory
ADirectory == [is_dir |-> TRUE]

\* a sound archive with its root VERSION file rewritten
WithRootVersion(z, v) ==
    [z EXCEPT !.VERSION = [p \in DOMAIN z.VERSION |->
                             IF p = <<get_root_uuid(z), "VERSION">> THEN v
                             ELSE z.VERSION[p]]]

\* VERSION contents that no registered parser answers to: text that is not
\* in the VERSION format, and a well-formed file naming format version 6
OddVersions == {"out of spec", "6"}

DispatchInputs ==
    Archives
    \cup {ADirectory}
    \cup { WithRootVersion(MakeArchive(LineageChain, AllV5(LineageChain), <<>>, TRUE), v) :
             v \in OddVersions }

InitDispatch ==
    /\ zf \in DispatchInputs
    /\ cfg = [perform_checksum_validation |-> TRUE, parse_study_metadata |-> FALSE]
    /\ results = NoResults
    /\ dag = NoDag
    /\ parser = ""
    /\ others = <<>>
    /\ view = NoView
    /\ ret = {}
    /\ raised = ""
    /\ warned = 0
    /\ validated = 0
    /\ calls = 0
    /\ alias = {}
    /\ provnode = BlankNode
    /\ got_parents = NoParents
    /\ pc = "start"

SpecDispatch == InitDispatch /\ [][GetParser]_vars

----------------------------------------------------------------------------
----------------------------------------------------------------------------
(* Archives with one more entry than the provenance files: the parsers are  *)
(* handed a zip whose listing also names a file or folder of the caller's.  *)

\* entries whose names hold an expected name without being one
StrayPaths ==
    { <<RootId, "provenance", "action", "sample_metadata.yaml">>,
      <<RootId, "provenance", "artifacts", "b", "action", "sample_metadata.yaml">>,
      <<RootId, "data", "provenance_notes", "metadata.yaml">> }

WithStrayPath(z, p) == [z EXCEPT !.namelist = Append(@, p)]

AllOf(L, v) == [i \in DOMAIN L |-> v]

StrayArchives ==
    { WithStrayPath(MakeArchive(L, AllOf(L, rv), <<>>, TRUE), p) :
        L \in {LineageChain, LineagePipeline, LineageMetadata},
        rv \in Versions \ {"0"},
        p \in StrayPaths }

InitStray ==
    /\ zf \in StrayArchives
    /\ cfg = [perform_checksum_validation |-> TRUE, parse_study_metadata |-> FALSE]
    /\ results = NoResults
    /\ dag = NoDag
    /\ parser = ""
    /\ others = <<>>
    /\ view = NoView
    /\ ret = {}
    /\ raised = ""
    /\ warned = 0
    /\ validated = 0
    /\ calls = 0
    /\ alias = {}
    /\ provnode = BlankNode
    /\ got_parents = NoParents
    /\ pc = "start"

SpecStray == InitStray /\ [][Next]_vars

(* What the archive says, read off the zip listing alone.                   *)

\* the names the parsers look for in a provenance folder
NodeFileNames == {"VERSION", "metadata.yaml", "action.yaml", "citations.bib"}

\* the provenance folder a path lies in
FolderOf(fp) ==
    IF Len(fp) >= 4 /\ fp[3] = "artifacts" THEN SubSeq(fp, 1, 4)
    ELSE SubSeq(fp, 1, 2)

\* the provenance folders the listing mentions
ProvFolders(z) ==
    { FolderOf(fp) : fp \in { q \in SeqToSet(z.namelist) :
                                /\ Len(q) >= 3
                                /\ q[2] = "provenance"
                                /\ PathName(q) \in NodeFileNames } }

\* the id of the result a folder belongs to
FolderId(f) == IF Len(f) = 4 THEN f[4] ELSE f[1]

\* the 'every node' files of a format version, relative to the folder
RequiredFiles(v) ==
    { <<"VERSION">>, <<"metadata.yaml">> }
    \cup (IF v # "0" THEN { <<"action", "action.yaml">> } ELSE {})
    \cup (IF v \in {"4", "5"} THEN { <<"citations.bib">> } ELSE {})

\* the folder holds every file its own version requires
FolderComplete(z, f) ==
    /\ InSeq(f \o <<"VERSION">>, z.namelist)
    /\ \A r \in RequiredFiles(z.VERSION[f \o <<"VERSION">>]) :
          InSeq(f \o r, z.namelist)

NodeLacksFile(z) == \E f \in ProvFolders(z) : ~FolderComplete(z, f)

HasRootVersion(z) == InSeq(<<z.namelist[1][1], "VERSION">>, z.namelist)

RootVersion(z) == z.VERSION[<<z.namelist[1][1], "VERSION">>]

HasRootMetadata(z) == InSeq(<<z.namelist[1][1], "metadata.yaml">>, z.namelist)

\* some ancestor folder was written by an older release than the root
HasOlderAncestor(z) ==
    \E f \in ProvFolders(z) :
        /\ InSeq(f \o <<"VERSION">>, z.namelist)
        /\ z.VERSION[f \o <<"VERSION">>] # RootVersion(z)

\* the parents a folder's action.yaml records: its inputs, the members of
\* its input collections, and the artifacts it took as metadata
RecordedParents(z, f) ==
    IF ~InSeq(f \o <<"action", "action.yaml">>, z.namelist)
       \/ z.VERSION[f \o <<"VERSION">>] = "0"
    THEN {}
    ELSE LET a == z.action[f \o <<"action", "action.yaml">>]
         IN UNION { SeqToSet(a.inputs[k].ids) : k \in 1..Len(a.inputs) }
            \cup UNION { SeqToSet(a.parameters[k].input_artifact_uuids) :
                           k \in 1..Len(a.parameters) }

\* every (parent, child) pair the archive records
RecordedEdges(z) ==
    UNION { { <<p, FolderId(f)>> : p \in RecordedParents(z, f) } :
            f \in ProvFolders(z) }

\* the results with a provenance folder; a version-0 archive has none and
\* its one node is the root
RecordedIds(z) ==
    IF RootVersion(z) = "0" THEN {z.namelist[1][1]}
    ELSE { FolderId(f) : f \in ProvFolders(z) }

\* n and everything reachable from n against the direction of the edges
RECURSIVE Ancestry(_, _, _)
Ancestry(edges, seen, k) ==
    IF k = 0 THEN seen
    ELSE Ancestry(edges, seen \cup { e[1] : e \in { f \in edges : f[2] \in seen } },
                  k - 1)

AncestorsOf(g, start) == Ancestry(g.edges, start, Cardinality(g.nodes))

\* the graph and the origin ids the last successful call produced
BuiltGraph == IF pc = "parse_prov" THEN results.prov_digraph ELSE dag.dag

BuiltOrigins ==
    IF pc = "parse_prov" THEN results.parsed_artifact_uuids
    ELSE dag._parsed_artifact_uuids

BuiltValidity ==
    IF pc = "parse_prov"
    THEN <<results.provenance_is_valid, results.checksum_diff>>
    ELSE <<dag._provenance_is_valid, dag._checksum_diff>>

\* the call made was a parse of the archive (by either module)
Parsed == pc \in {"parse_prov", "ProvDAG"}

Returned == IF pc = "parse_prov" THEN results # NoResults ELSE dag # NoDag

----------------------------------------------------------------------------
(* C1 .. C9: parsing and graph construction.                                *)

\* C1: for an archive of format version 1-5 in which some provenance folder
\* lacks one of the files required of every node, the parse raises the
\* malformed-archive error (ValueError) and hands nothing back: neither a
\* ParserResults nor a ProvDAG.
C1_FailFast ==
    (Parsed /\ HasRootVersion(zf) /\ RootVersion(zf) # "0" /\ NodeLacksFile(zf))
        => (raised = "ValueError" /\ ~Returned)

C1_Witness ==
    /\ pc = "parse_prov"
    /\ parser = "5"
    /\ ~InSeq(<<"a", "provenance", "artifacts", "b", "action", "action.yaml">>,
              zf.namelist)
    /\ InSeq(<<"a", "provenance", "artifacts", "b", "metadata.yaml">>, zf.namelist)
    /\ raised = "ValueError"
    /\ results = NoResults

\* C2: a well-formed archive, every folder of which holds the files of its
\* own version, parses without the malformed-archive error even when an
\* ancestor folder is of an older format than the root.
C2_PerNodeVersion ==
    (Parsed /\ HasRootVersion(zf) /\ HasRootMetadata(zf) /\ ~NodeLacksFile(zf)
        /\ HasOlderAncestor(zf))
        => raised # "ValueError"

\* C3: parsing a well-formed version-0 archive yields a graph of exactly one
\* node, the archive root, with has_provenance false, a payload without an
\* action, and no edges; and one warning was emitted.
C3_VersionZero ==
    (Parsed /\ HasRootVersion(zf) /\ RootVersion(zf) = "0" /\ HasRootMetadata(zf))
        => /\ raised = ""
           /\ BuiltGraph.nodes = {zf.namelist[1][1]}
           /\ BuiltGraph.edges = {}
           /\ BuiltGraph.attr[zf.namelist[1][1]].has_provenance = FALSE
           /\ BuiltGraph.attr[zf.namelist[1][1]].node_data # NoneData
           /\ ~BuiltGraph.attr[zf.namelist[1][1]].node_data.has_action
           /\ warned = 1

C3_Witness ==
    /\ pc = "parse_prov"
    /\ parser = "0"
    /\ raised = ""
    /\ results.prov_digraph.nodes = {"a"}
    /\ warned = 1

\* C4: the (validity, checksum_diff) pair of a successful parse depends on
\* the opt-out flag and the root version only: opted out, it is
\* (VALIDATION_OPTOUT, None) and the validator was not called; else for
\* versions 0-4 it is (PREDATES_CHECKSUMS, None) and the validator was not
\* called; else it is the pair the validator returns, called once.
C4_ValidityPair ==
    (Parsed /\ raised = "")
        => IF ~cfg.perform_checksum_validation
           THEN BuiltValidity = <<"VALIDATION_OPTOUT", NoDiff>> /\ validated = 0
           ELSE IF RootVersion(zf) # "5"
           THEN BuiltValidity = <<"PREDATES_CHECKSUMS", NoDiff>> /\ validated = 0
           ELSE BuiltValidity = validate_checksums(zf) /\ validated = 1

C4_Witness ==
    /\ pc = "parse_prov"
    /\ parser = "5"
    /\ raised = ""
    /\ cfg.perform_checksum_validation
    /\ ~zf.md5_ok
    /\ results.provenance_is_valid = "INVALID"
    /\ results.checksum_diff = SomeDiff
    /\ validated = 1

C7_NoProvenanceOwnsNothing ==
    (Parsed /\ raised = "")
        => \A n \in BuiltGraph.nodes :
              LET at == BuiltGraph.attr[n]
              IN /\ (~at.has_provenance /\ at.node_data # NoneData)
                       => /\ at.node_data._archive_version = "0"
                          /\ ~at.node_data.has_action
                          /\ ~at.node_data.has_metadata
                 /\ (at.node_data # NoneData)
                       => (at.has_provenance <=> at.node_data._archive_version # "0")

C7_Witness ==
    /\ pc = "parse_prov"
    /\ parser = "5"
    /\ raised = ""
    /\ "b" \in results.prov_digraph.nodes
    /\ results.prov_digraph.attr["b"].node_data # NoneData
    /\ results.prov_digraph.attr["b"].node_data._archive_version = "0"
    /\ ~results.prov_digraph.attr["b"].has_provenance

C9_NestedView ==
    (pc = "nested_view")
        => /\ view.raised = ""
           /\ view.nodes = AncestorsOf(dag.dag, dag._parsed_artifact_uuids)
           /\ (dag.dag.edges = {<<"d", "a">>, <<"d", "b">>, <<"b", "c">>})
                 => view.nodes = {"a", "d"}

C9_Witness ==
    /\ pc = "nested_view"
    /\ dag.dag.edges = {<<"d", "a">>, <<"d", "b">>, <<"b", "c">>}
    /\ dag._parsed_artifact_uuids = {"a"}
    /\ view.nodes = {"a", "d"}

----------------------------------------------------------------------------
(* C10: the terminal_uuids memo.                                            *)

\* the ids without an outgoing edge in the nested view of the graph as it is
CurrentTerminals(self) ==
    LET inView == self.dag.nodes \cap AncestorsOf(self.dag, self._parsed_artifact_uuids)
    IN { n \in inView : ~\E e \in self.dag.edges : e[1] = n /\ e[2] \in inView }

\* C10: whatever constructions, relabels, unions and reads came before, the
\* set a terminal_uuids read returns is the set of ids with no outgoing edge
\* in the nested view of the graph as it is then.
C10_MemoNeverStale ==
    (pc = "terminal_uuids" /\ raised = "") => ret = CurrentTerminals(dag)


----------------------------------------------------------------------------
(* C11: terminal ids and origin ids.                                        *)

\* C11: in every state of a ProvDAG, after any constructions, reads,
\* relabels and unions, every terminal id is one of the parsed (origin) ids:
\* the memoized set and the set a terminal_uuids read has just returned are
\* subsets of _parsed_artifact_uuids.
C11_TerminalsAreOrigins ==
    dag # NoDag =>
        /\ dag._terminal_uuids.cached =>
               dag._terminal_uuids.uuids \subseteq dag._parsed_artifact_uuids
        /\ (pc = "terminal_uuids" /\ raised = "") =>
               ret \subseteq dag._parsed_artifact_uuids

\* a read after a relabel that renamed the origin returned the new name
C11_Witness ==
    /\ pc = "terminal_uuids"
    /\ raised = ""
    /\ calls > 0
    /\ ret = {"x"}
    /\ dag._parsed_artifact_uuids = {"x"}

----------------------------------------------------------------------------
(* C12: relabelling one node.                                               *)

\* the outcomes of dag.relabel_nodes({old: new})
RelabelOneTo(self, old, new) == relabel_nodes(self, [k \in {old} |-> new])

\* C12: for any node old of the graph and any id new that is not a node yet,
\* relabel_nodes({old: new}) completes; afterwards terminal_uuids holds new
\* if it held old before, and new is a node of the graph, so that
\* node_has_provenance(new) and get_node_data(new) find it; this whether or
\* not old is a parsed (origin) id.
C12_RelabelConsistency ==
    (dag # NoDag /\ terminal_uuids(dag).raised = "") =>
        \A old \in dag.dag.nodes, new \in Labels \ dag.dag.nodes :
            \A got \in RelabelOneTo(dag, old, new) :
                /\ got.raised = ""
                /\ new \in got.self.dag.nodes
                /\ old \in terminal_uuids(dag).value =>
                       /\ terminal_uuids(got.self).raised = ""
                       /\ new \in terminal_uuids(got.self).value

----------------------------------------------------------------------------
(* C13: mappings that bring two nodes under one label.                      *)

\* two nodes of g mapped to one label, or a node of g mapped to the label of
\* another node that the mapping leaves where it is
Collides(g, mapping) ==
    LET renamed == DOMAIN mapping \cap g.nodes
    IN \/ \E k1, k2 \in renamed : k1 # k2 /\ mapping[k1] = mapping[k2]
       \/ \E k \in renamed :
              /\ mapping[k] # k
              /\ mapping[k] \in g.nodes
              /\ mapping[k] \notin DOMAIN mapping \/ mapping[mapping[k]] = mapping[k]

\* C13: relabel_nodes with a mapping that collides two distinct nodes of the
\* graph fails with an error and leaves the graph as it was: two nodes are
\* never merged into one.
C13_NoSilentMerge ==
    dag # NoDag =>
        \A mapping \in Mappings :
            Collides(dag.dag, mapping) =>
                \A got \in relabel_nodes(dag, mapping) :
                    /\ got.raised # ""
                    /\ got.self.dag = dag.dag

----------------------------------------------------------------------------
(* C14: node keys and node payloads.                                        *)

\* C14: in every state reached by constructing a ProvDAG and relabelling
\* it any number of times, each node that carries a ProvNode is stored under
\* the key that ProvNode gives as its own uuid.
C14_KeysMatchPayloads ==
    dag # NoDag =>
        \A n \in dag.dag.nodes :
            dag.dag.attr[n].node_data # NoneData =>
                dag.dag.attr[n].node_data._uuid = n

----------------------------------------------------------------------------
(* C15: the parsed uuids under a relabel.                                   *)

\* a set of ids seen through a mapping: an id the mapping does not mention
\* keeps its name
ImageUnder(mapping, S) ==
    { IF u \in DOMAIN mapping THEN mapping[u] ELSE u : u \in S }

\* C15: relabel_nodes(mapping), for any mapping networkx accepts, completes
\* and leaves as _parsed_artifact_uuids the image of the old set under the
\* mapping, each of them a node of the graph; this for mappings that rename
\* only nodes that are not parsed (origin) ids too.
C15_OriginsFollowMapping ==
    dag # NoDag =>
        \A mapping \in Mappings :
            \A got \in relabel_nodes(dag, mapping) :
                got.raised # "NetworkXUnfeasible" =>
                    /\ got.raised = ""
                    /\ got.self._parsed_artifact_uuids =
                           ImageUnder(mapping, dag._parsed_artifact_uuids)
                    /\ got.self._parsed_artifact_uuids \subseteq got.self.dag.nodes

----------------------------------------------------------------------------
(* C16: the validity of a union.                                            *)

\* ValidationCode, from best to worst
ValidationOrder == <<"VALID", "VALIDATION_OPTOUT", "PREDATES_CHECKSUMS", "INVALID">>

ValidationRank(code) ==
    CHOOSE i \in 1..Len(ValidationOrder) : ValidationOrder[i] = code

\* the code among those given that no other is worse than
WorstOf(codes) ==
    CHOOSE c \in codes : \A d \in codes : ValidationRank(d) <= ValidationRank(c)

\* a step that is a call of dag.union(others)
UnionStep == pc' = "union" /\ calls' = calls + 1

\* C16: after dag.union(others) the receiver's provenance_is_valid is the
\* worst code among its own before the call and those of the others, in the
\* order VALID < VALIDATION_OPTOUT < PREDATES_CHECKSUMS < INVALID.
C16_UnionValidityIsWorst ==
    [][UnionStep =>
          dag'._provenance_is_valid =
              WorstOf({dag._provenance_is_valid}
                      \cup { others[i]._provenance_is_valid : i \in 1..Len(others) })]_vars

----------------------------------------------------------------------------
(* C17: the parsed uuids of a union.                                        *)

\* C17: dag.union(others) completes for whatever others were built, and
\* leaves as the receiver's _parsed_artifact_uuids its own before the call
\* together with those of every one of the others.
C17_UnionOrigins ==
    [][UnionStep =>
          /\ raised' = ""
          /\ dag'._parsed_artifact_uuids =
                 dag._parsed_artifact_uuids
                 \cup UNION { others[i]._parsed_artifact_uuids : i \in 1..Len(others) }]_vars

----------------------------------------------------------------------------
(* C18: the nodes and edges of a union.                                     *)

\* C18: after dag.union(others) the receiver's nodes are its nodes before
\* the call together with the nodes of every one of the others, and its
\* edges are its edges before the call together with theirs: nothing is
\* lost and nothing is invented.
C18_UnionNodesAndEdges ==
    [][UnionStep =>
          /\ dag'.dag.nodes =
                 dag.dag.nodes \cup UNION { others[i].dag.nodes : i \in 1..Len(others) }
          /\ dag'.dag.edges =
                 dag.dag.edges \cup UNION { others[i].dag.edges : i \in 1..Len(others) }]_vars

\* a union that completed and brought in the other archive's c <- b
C18_Witness ==
    /\ pc = "union"
    /\ raised = ""
    /\ Len(others) = 1
    /\ "c" \in others[1].dag.nodes
    /\ "c" \notin RecordedIds(zf)
    /\ "c" \in dag.dag.nodes
    /\ <<"b", "c">> \in dag.dag.edges

----------------------------------------------------------------------------
(* C19: the graphs a union reads.                                           *)

\* C19: no call on the receiver, union, relabel_nodes or terminal_uuids,
\* changes any of the others: each keeps its nodes, edges, node attributes,
\* parsed uuids, validity, checksum diff and memo, whether the call comes
\* before or after a union that read it.
C19_OthersUntouched ==
    [][\A i \in 1..Len(others) : i <= Len(others') /\ others'[i] = others[i]]_vars

\* after a union with the archive c <- b, the node that came from it has
\* been renamed in the receiver, and the other still has its c
C19_Witness ==
    /\ pc = "relabel_nodes"
    /\ raised = ""
    /\ Len(others) = 1
    /\ others[1].dag.nodes = {"b", "c"}
    /\ others[1].dag.edges = {<<"b", "c">>}
    /\ "c" \notin RecordedIds(zf)
    /\ dag.dag.nodes = {"a", "b", "x"}
    /\ dag.dag.edges = {<<"b", "a">>, <<"b", "x">>}

----------------------------------------------------------------------------
(* C20: the parents derived from an action's inputs.                        *)

\* the role names one input is to contribute: name for a single value,
\* name_0 .. name_(n-1) for a collection of n, nothing for None
ExpectedRoleNames(input) ==
    IF input.kind \in {"list", "set"}
    THEN [i \in 1..Len(input.ids) |-> input.name \o "_" \o ToString(i - 1)]
    ELSE IF input.kind = "uuid" THEN << input.name >>
    ELSE <<>>

RECURSIVE ExpectedRoles(_)
ExpectedRoles(inputs) ==
    IF inputs = <<>> THEN <<>>
    ELSE ExpectedRoleNames(Head(inputs)) \o ExpectedRoles(Tail(inputs))

\* C20: for a result with provenance, _parents returns, ahead of the
\* artifacts passed as metadata, one entry per single non-null input and one
\* per element of each collection input (k + n1 + .. + nm entries), the
\* elements of a collection `name` under the role names name_0 ..
\* name_(n-1) in order, and no entry for an input whose value is None.
C20_ParentsExpandCollections ==
    (pc \in {"archive_parser._parents", "parse._parents"} /\ has_provenance(provnode)) =>
        /\ raised = ""
        /\ Len(got_parents.list) =
               Len(ExpectedRoles(provnode.action.inputs))
               + Len(provnode._artifacts_passed_as_md)
        /\ \A i \in 1..Len(ExpectedRoles(provnode.action.inputs)) :
               got_parents.list[i].name = ExpectedRoles(provnode.action.inputs)[i]

----------------------------------------------------------------------------
(* C21: artifacts passed as metadata.                                       *)

\* the action.yaml the archive holds for a result
ActionFileOf(z, id) == NodePrefix(get_root_uuid(z), id) \o <<"action", "action.yaml">>

\* the artifact ids the metadata-tagged parameters of an action name, in
\* the order of the parameters
RECURSIVE RecordedMdArtifacts(_)
RecordedMdArtifacts(params) ==
    IF params = <<>> THEN <<>>
    ELSE (IF Head(params).kind = "metadata"
          THEN Head(params).input_artifact_uuids ELSE <<>>)
         \o RecordedMdArtifacts(Tail(params))

\* C21: in a graph archive_parser built, the parents of a node with
\* provenance are those of its action's inputs followed by one entry
\* {'artifact_passed_as_metadata': id} for every artifact id a
\* metadata-tagged parameter names, and the graph has the edge from each such
\* id to the node; a node without provenance has no parents (None) and no
\* edge leads into it.
C21_MetadataArtifactsAreParents ==
    (pc = "parse_prov" /\ raised = "") =>
        \A n \in results.prov_digraph.nodes :
            LET nd == results.prov_digraph.attr[n].node_data
            IN IF nd # NoneData /\ has_provenance(nd)
               THEN LET md == RecordedMdArtifacts(zf.action[ActionFileOf(zf, n)].parameters)
                        ins == Len(_parents(nd).list) - Len(md)
                    IN /\ ins = Len(ExpandInputs(zf.action[ActionFileOf(zf, n)].inputs))
                       /\ \A k \in 1..Len(md) :
                             /\ _parents(nd).list[ins + k] =
                                    Parent("artifact_passed_as_metadata", md[k])
                             /\ <<md[k], n>> \in results.prov_digraph.edges
               ELSE /\ nd # NoneData => _parents(nd).none
                    /\ ~\E e \in results.prov_digraph.edges : e[2] = n

\* a took the artifact b as metadata, and b is its parent in the graph
C21_Witness ==
    /\ pc = "parse_prov"
    /\ raised = ""
    /\ ActionFileOf(zf, "a") \in DOMAIN zf.action
    /\ RecordedMdArtifacts(zf.action[ActionFileOf(zf, "a")].parameters) = <<"b">>
    /\ zf.action[ActionFileOf(zf, "a")].inputs = <<>>
    /\ <<"b", "a">> \in results.prov_digraph.edges

----------------------------------------------------------------------------
(* C22: the required files from one format version to the next.             *)

\* C22: whichever parser of versions 1 to 5 the dispatcher returns, each
\* name in the expected_files_in_all_nodes of the version before it is in
\* its own, and each name in the expected_files_root_only of the version
\* before it is in its own.
C22_RequiredFilesGrow ==
    parser \in FORMAT_REGISTRY =>
        \A w \in FORMAT_REGISTRY :
            VNum(parser) = VNum(w) + 1 =>
                /\ SeqToSet(expected_files_in_all_nodes(w))
                       \subseteq SeqToSet(expected_files_in_all_nodes(parser))
                /\ SeqToSet(expected_files_root_only(w))
                       \subseteq SeqToSet(expected_files_root_only(parser))

\* the parser of a version 5 archive is in hand: it asks for what version 3
\* asks for and for citations.bib and checksums.md5 besides
C22_Witness ==
    /\ pc = "get_parser"
    /\ parser = "5"
    /\ SeqToSet(expected_files_in_all_nodes(parser))
           \ SeqToSet(expected_files_in_all_nodes("3")) = { <<"citations.bib">> }
    /\ SeqToSet(expected_files_root_only(parser)) = { <<"checksums.md5">> }

----------------------------------------------------------------------------
(* C23: a node's metadata.                                                  *)

\* the names of the metadata-tagged parameters of an action
MetadataParamNames(params) ==
    { params[k].name : k \in { j \in 1..Len(params) : params[j].kind = "metadata" } }

\* C23: for every ProvNode of a graph archive_parser built, metadata is
\* None exactly when parse_study_metadata is off or the node has no
\* provenance; otherwise it is a mapping with exactly one entry per
\* metadata-tagged parameter of the node's action, the empty mapping when
\* there is none.
C23_MetadataTables ==
    (pc = "parse_prov" /\ raised = "") =>
        \A n \in results.prov_digraph.nodes :
            LET nd == results.prov_digraph.attr[n].node_data
            IN nd # NoneData =>
                 /\ ~nd.has_metadata <=>
                        (~cfg.parse_study_metadata \/ ~has_provenance(nd))
                 /\ nd.has_metadata =>
                        nd._metadata =
                            MetadataParamNames(zf.action[ActionFileOf(zf, n)].parameters)

\* metadata parsing is on: a has a table for each of its two metadata
\* parameters, its parent b has the empty mapping
C23_Witness ==
    /\ pc = "parse_prov"
    /\ raised = ""
    /\ cfg.parse_study_metadata
    /\ {"a", "b"} \subseteq results.prov_digraph.nodes
    /\ results.prov_digraph.attr["a"].node_data # NoneData
    /\ results.prov_digraph.attr["b"].node_data # NoneData
    /\ results.prov_digraph.attr["a"].node_data._metadata = {"metadata", "samples"}
    /\ results.prov_digraph.attr["b"].node_data.has_metadata
    /\ results.prov_digraph.attr["b"].node_data._metadata = {}

----------------------------------------------------------------------------
(* C24: citations of a node built without a citations.bib.                  *)

\* reading .citations of a ProvNode of the module that built the graph
CitationsOf(nd) == IF pc = "parse_prov" THEN citations(nd) ELSE citations_parse_py(nd)

\* C24: for every ProvNode of a built graph that was handed no
\* citations.bib, reading its citations raises nothing and gives the empty
\* mapping.
C24_NoCitationsFileNoError ==
    (Parsed /\ raised = "") =>
        \A n \in BuiltGraph.nodes :
            LET nd == BuiltGraph.attr[n].node_data
            IN (nd # NoneData /\ ~nd.has_citations) =>
                   CitationsOf(nd) = [raised |-> "", value |-> {}]

----------------------------------------------------------------------------
(* C25: the dispatcher.                                                     *)

\* the input is a zip archive whose root VERSION file is there and names
\* one of the format versions 0 to 5
NamesKnownVersion(z) ==
    /\ ~is_dir(z)
    /\ HasRootVersion(z)
    /\ RootVersion(z) \in {"0", "1", "2", "3", "4", "5"}

\* C25: get_parser returns the parser registered for the format version the
\* archive's root VERSION names when that is one of 0 to 5; for a
\* directory, for an archive whose VERSION is missing or out of spec, and
\* for a VERSION naming a format version without a registered parser, it
\* raises and returns no parser.
C25_Dispatch ==
    pc = "get_parser" =>
        IF NamesKnownVersion(zf)
        THEN raised = "" /\ parser = RootVersion(zf)
        ELSE raised # "" /\ parser = ""

\* a well-formed VERSION naming format version 6: KeyError, no parser
C25_Witness ==
    /\ pc = "get_parser"
    /\ ~is_dir(zf)
    /\ HasRootVersion(zf)
    /\ RootVersion(zf) = "6"
    /\ raised = "KeyError"
    /\ parser = ""

----------------------------------------------------------------------------
(* C26: calls that raise.                                                   *)

\* a step that is a call of dag.relabel_nodes or of dag.union
GraphCallStep == pc' \in {"relabel_nodes", "union"} /\ calls' = calls + 1

\* C26: when relabel_nodes or union raises, the receiver is as it was before
\* the call: the same nodes, edges, parsed uuids and terminal_uuids memo.
C26_FailedCallChangesNothing ==
    [][(GraphCallStep /\ raised' # "") =>
          /\ dag'.dag.nodes = dag.dag.nodes
          /\ dag'.dag.edges = dag.dag.edges
          /\ dag'._parsed_artifact_uuids = dag._parsed_artifact_uuids
          /\ dag'._terminal_uuids = dag._terminal_uuids]_vars

----------------------------------------------------------------------------
(* C27: payloads across a union.                                            *)

\* c <- b where b is a !no-provenance input with no folder in the archive
LineageOtherNoProvParent ==
    [i \in {"c"} |-> Act("method", <<In1("table", "b")>>, <<>>)]

\* the ProvDAGs a caller may union with: those of OtherArchives and one that
\* names b as an input and holds nothing of it
UnionPartners ==
    { ProvDAG_init(cfg, z).value :
        z \in OtherArchives \cup
              { MakeArchiveAt("c", LineageOtherNoProvParent,
                              AllV5(LineageOtherNoProvParent), <<>>, TRUE) } }

\* n has a parsed payload in d
HasPayload(d, n) ==
    /\ n \in d.dag.nodes
    /\ d.dag.attr[n].node_data # NoneData

\* n is in d as somebody's parent and nothing else
ParentOnly(d, n) ==
    /\ n \in d.dag.nodes
    /\ d.dag.attr[n].node_data = NoneData
    /\ ~d.dag.attr[n].has_provenance

\* the ids that holder has a payload for and bare has as a parent only
PayloadAtStake(holder, bare) ==
    { n \in Ids : HasPayload(holder, n) /\ ParentOnly(bare, n) }

\* merged has, for every id at stake, the payload that holder has
KeepsPayloads(merged, holder, bare) ==
    \A n \in PayloadAtStake(holder, bare) :
        /\ merged.dag.attr[n].node_data = holder.dag.attr[n].node_data
        /\ merged.dag.attr[n].has_provenance = holder.dag.attr[n].has_provenance

\* receiver.union([argument]) keeps the payloads of both sides
UnionKeepsPayloads(receiver, argument, is_iterator) ==
    /\ KeepsPayloads(union(receiver, <<argument>>, is_iterator).self,
                     receiver, argument)
    /\ KeepsPayloads(union(receiver, <<argument>>, is_iterator).self,
                     argument, receiver)

\* C27: an id with a parsed payload in one of two unioned graphs and a
\* parent-only node in the other has the parsed payload (and its
\* has_provenance) in the merged graph, whichever of the two is the receiver.
C27_UnionKeepsPayloads ==
    dag # NoDag =>
        \A o \in UnionPartners : \A is_iterator \in BOOLEAN :
            /\ UnionKeepsPayloads(dag, o, is_iterator)
            /\ UnionKeepsPayloads(o, dag, is_iterator)

----------------------------------------------------------------------------
(* C28: the node an enumerated path is filed under.                         *)

\* the paths the parse that was made enumerated
EnumeratedFps ==
    IF pc = "parse_prov"
    THEN _get_prov_data_fps(zf, expected_files_in_all_nodes(parser),
                            expected_files_root_only(parser))
    ELSE _get_prov_data_fps_parse_py(zf,
             expected_files_in_all_nodes(RootVersion(zf))
                 \o expected_files_root_only(RootVersion(zf)))

\* the id the parse that was made filed a path with an 'artifacts' part under
AssignedNonrootId(fp) ==
    IF pc = "parse_prov" THEN get_nonroot_uuid(fp) ELSE _get_nonroot_uuid(fp)

\* the part that immediately follows the first 'artifacts' part
AfterArtifacts(fp) ==
    fp[1 + CHOOSE i \in 1..Len(fp) :
               fp[i] = "artifacts" /\ \A j \in 1..(i - 1) : fp[j] # "artifacts"]

\* the keys of the node map: the nodes of the built graph that carry a payload
NodeMapKeys == { n \in BuiltGraph.nodes : BuiltGraph.attr[n].node_data # NoneData }

\* C28: after a successful parse of a version 1-5 archive, every enumerated
\* path with an 'artifacts' part was filed under the id that follows
\* 'artifacts', whatever its name and depth, and the keys of the node map are
\* exactly the root id and the ids of the artifacts/<id> folders.
C28_PathsFiledUnderTheirNode ==
    (Parsed /\ raised = "" /\ RootVersion(zf) # "0")
        => /\ \A k \in 1..Len(EnumeratedFps) :
                 InSeq("artifacts", EnumeratedFps[k])
                     => AssignedNonrootId(EnumeratedFps[k])
                            = AfterArtifacts(EnumeratedFps[k])
           /\ NodeMapKeys = RecordedIds(zf)

----------------------------------------------------------------------------
(* C29: which zip paths are enumerated.                                     *)

\* fp ends in the parts of name
EndsInName(fp, name) ==
    /\ Len(fp) >= Len(name)
    /\ SubSeq(fp, Len(fp) - Len(name) + 1, Len(fp)) = name

\* fp has a part equal to 'provenance' and ends in one of the names
NamesNodeData(fp, names) ==
    /\ InSeq("provenance", fp)
    /\ \E k \in 1..Len(names) : EndsInName(fp, names[k])

\* C29: the paths ParserV1 .. ParserV5 enumerate are the zip paths that have
\* a part equal to 'provenance' and end in one of the version's every-node
\* file names, and the root-only file names under the root id; a path that
\* only holds those strings inside its parts is not enumerated.
C29_EnumeratedByPartNotSubstring ==
    (pc = "parse_prov" /\ parser # "0")
        => \A fp \in SeqToSet(zf.namelist) \cup SeqToSet(EnumeratedFps) :
              InSeq(fp, EnumeratedFps)
                <=> \/ /\ InSeq(fp, zf.namelist)
                       /\ NamesNodeData(fp, expected_files_in_all_nodes(parser))
                    \/ InSeq(fp, Qualify(<<get_root_uuid(zf)>>,
                                         expected_files_root_only(parser)))

----------------------------------------------------------------------------
(* C30: the walk of get_nested_provenance_nodes.                            *)

\* no node of g is its own ancestor
Acyclic(g) ==
    \A n \in g.nodes :
        n \notin AncestorsOf(g, { e[1] : e \in { f \in g.edges : f[2] = n } })

\* the nodes with more than one child: where the children have a common
\* descendant, several paths lead from it to such a node
SharedAncestors(g) ==
    { n \in g.nodes :
        Cardinality({ e \in g.edges : e[1] = n }) > 1 }

\* C30: on an acyclic graph get_nested_provenance_nodes(id) returns, for
\* every node id, without running out of frames, exactly id and the nodes
\* from which id is reachable along the edges, each one once however many
\* paths lead to it.
C30_WalkIsAncestorClosure ==
    (pc = "nested_view" /\ Acyclic(dag.dag))
        => \A n \in dag.dag.nodes :
              /\ "RecursionError" \notin get_nested_provenance_nodes(dag.dag, n)
              /\ get_nested_provenance_nodes(dag.dag, n) = AncestorsOf(dag.dag, {n})

C30_Witness ==
    /\ pc = "nested_view"
    /\ Acyclic(dag.dag)
    /\ dag.dag.edges = {<<"b", "a">>, <<"c", "a">>, <<"d", "b">>, <<"d", "c">>}
    /\ "d" \in SharedAncestors(dag.dag)
    /\ get_nested_provenance_nodes(dag.dag, "a") = {"a", "b", "c", "d"}
    /\ view.nodes = {"a", "b", "c", "d"}
====
